---------------------------- MODULE Spec2Model ----------------------------
(***************************************************************************)
(* Model of the Go post-processor of arona-flatbuffers                     *)
(* (cmd/tools/fbsprocessor/internal/fbstools/languages/go.go).             *)
(*                                                                         *)
(* Two specifications:                                                     *)
(*   SpecTree  one parsed file; the detector (isFlatBufferFile) and the    *)
(*             patcher (patchAST) are applied to it.                       *)
(*   Spec      a directory of files; ProcessFile is called on every file   *)
(*             of the walk, then PostProcess; the tool is then run once    *)
(*             more.  The environment chooses the order of the walk and    *)
(*             the I/O calls that fail.                                    *)
(*                                                                         *)
(* A syntax tree is a record with a field k naming the go/ast node type    *)
(* and the fields of that node type.  Strings are TLA+ strings; a string   *)
(* the code takes apart (an import literal, a file path) is a sequence of  *)
(* its pieces.                                                             *)
(***************************************************************************)
EXTENDS Integers, Sequences, FiniteSets, TLC

VARIABLES
    \* SpecTree
    tree,        \* the *ast.File being processed
    orig,        \* the tree as parsed
    tpc,         \* "parsed" | "detected" | "patched" | "off"
    detected,    \* result of isFlatBufferFile(orig)
    hist,        \* the tree after each patchAST call
    \* Spec
    fs,          \* file name -> text of the file (Absent when there is none)
    fs0,         \* the directory before the first run
    flatbuffers, \* GoProcessor.flatbuffers
    todo,        \* files of the walk not yet visited
    phase,       \* "walk" | "done" | "failed" | "off"
    run,         \* number of the current run
    last,        \* the last call: its kind, file, return value, state before
    snap         \* state at the end of the previous run

vars == <<tree, orig, tpc, detected, hist,
          fs, fs0, flatbuffers, todo, phase, run, last, snap>>

treeVars == <<tree, orig, tpc, detected, hist>>
dirVars == <<fs, fs0, flatbuffers, todo, phase, run, last, snap>>

-----------------------------------------------------------------------------
(* Bounds *)

MaxDecls == 3     \* declarations of a file drawn in SpecTree
MaxPatch == 2     \* patchAST calls on one tree in SpecTree
MaxFiles == 2     \* source files of the directory in Spec

-----------------------------------------------------------------------------
(* go/ast nodes *)

Nil == [k |-> "nil"]
Ident(name) == [k |-> "Ident", Name |-> name]
BasicLit(value) == [k |-> "BasicLit", Value |-> value]
SelectorExpr(x, sel) == [k |-> "SelectorExpr", X |-> x, Sel |-> Ident(sel)]
StarExpr(x) == [k |-> "StarExpr", X |-> x]
Field(names, type) == [k |-> "Field", Names |-> names, Type |-> type]
FieldList(list) == [k |-> "FieldList", List |-> list]
StructType(fields) == [k |-> "StructType", Fields |-> FieldList(fields)]
InterfaceType(methods) == [k |-> "InterfaceType", Methods |-> FieldList(methods)]
FuncType(params, results) == [k |-> "FuncType", Params |-> params, Results |-> results]
ImportSpec(name, path) == [k |-> "ImportSpec", Name |-> name, Path |-> BasicLit(path)]
TypeSpec(name, type) == [k |-> "TypeSpec", Name |-> Ident(name), Type |-> type]
ValueSpec(names, type, values) ==
    [k |-> "ValueSpec", Names |-> names, Type |-> type, Values |-> values]
GenDecl(tok, specs) == [k |-> "GenDecl", Tok |-> tok, Specs |-> specs]
FuncDecl(recv, name, type, body) ==
    [k |-> "FuncDecl", Recv |-> recv, Name |-> Ident(name), Type |-> type, Body |-> body]
BlockStmt(list) == [k |-> "BlockStmt", List |-> list]
DeclStmt(decl) == [k |-> "DeclStmt", Decl |-> decl]
ReturnStmt(results) == [k |-> "ReturnStmt", Results |-> results]
CompositeLit(type, elts) == [k |-> "CompositeLit", Type |-> type, Elts |-> elts]
KeyValueExpr(key, value) == [k |-> "KeyValueExpr", Key |-> key, Value |-> value]
CallExpr(fun, args) == [k |-> "CallExpr", Fun |-> fun, Args |-> args]

\* parser.ParseFile collects every import spec of the file in file.Imports.
RECURSIVE ImportsOf(_)
ImportsOf(decls) ==
    IF Len(decls) = 0 THEN <<>>
    ELSE (IF Head(decls).k = "GenDecl" /\ Head(decls).Tok = "import"
          THEN Head(decls).Specs ELSE <<>>) \o ImportsOf(Tail(decls))

File(decls) ==
    [k |-> "File", Name |-> Ident("flatdata"), Decls |-> decls,
     Imports |-> ImportsOf(decls)]

\* The children ast.Walk visits, in its order (nil children are skipped by
\* Inspect below).
Children(n) ==
    CASE n.k = "File" -> <<n.Name>> \o n.Decls
      [] n.k = "GenDecl" -> n.Specs
      [] n.k = "ImportSpec" -> <<n.Name, n.Path>>
      [] n.k = "TypeSpec" -> <<n.Name, n.Type>>
      [] n.k = "ValueSpec" -> n.Names \o <<n.Type>> \o n.Values
      [] n.k = "FuncDecl" -> <<n.Recv, n.Name, n.Type, n.Body>>
      [] n.k = "FuncType" -> <<n.Params, n.Results>>
      [] n.k = "FieldList" -> n.List
      [] n.k = "Field" -> n.Names \o <<n.Type>>
      [] n.k = "StructType" -> <<n.Fields>>
      [] n.k = "InterfaceType" -> <<n.Methods>>
      [] n.k = "StarExpr" -> <<n.X>>
      [] n.k = "SelectorExpr" -> <<n.X, n.Sel>>
      [] n.k = "BlockStmt" -> n.List
      [] n.k = "DeclStmt" -> <<n.Decl>>
      [] n.k = "ReturnStmt" -> n.Results
      [] n.k = "CompositeLit" -> <<n.Type>> \o n.Elts
      [] n.k = "KeyValueExpr" -> <<n.Key, n.Value>>
      [] n.k = "CallExpr" -> <<n.Fun>> \o n.Args
      [] OTHER -> <<>>

-----------------------------------------------------------------------------
(* The three ast.Inspect callbacks: what each returns for a node (whether  *)
(* the node's children are visited).                                       *)

\* usesFlatBuffersTable: the node is a field of type flatbuffers.Table.
IsTableField(n) ==
    /\ n.k = "Field"
    /\ n.Type.k = "SelectorExpr"
    /\ n.Type.X.k = "Ident"
    /\ n.Type.X.Name = "flatbuffers"
    /\ n.Type.Sel.Name = "Table"

\* Mutant: only a method (a declaration with a receiver) counts.
IsNameFuncWithRecv(n) == n.k = "FuncDecl" /\ n.Name.Name = "Name" /\ n.Recv.k # "nil"

\* hasNameMethod: the node is a function declaration named Name.
IsNameFunc(n) == n.k = "FuncDecl" /\ n.Name.Name = "Name"

Callback(f, n) ==
    CASE f = "usesFlatBuffersTable" -> ~IsTableField(n)
      [] f = "hasNameMethod" -> n.k # "FuncDecl"
      [] f = "patchAST" -> TRUE

\* ast.Inspect(n, f): the nodes f is called with, in depth-first order.
RECURSIVE Inspect(_, _), InspectList(_, _)
Inspect(n, f) ==
    IF n.k = "nil" THEN <<>>
    ELSE <<n>> \o (IF Callback(f, n) THEN InspectList(Children(n), f) ELSE <<>>)

InspectList(list, f) ==
    IF Len(list) = 0 THEN <<>>
    ELSE Inspect(Head(list), f) \o InspectList(Tail(list), f)

-----------------------------------------------------------------------------
(* Detection *)

FlatBuffersPath == "github.com/google/flatbuffers/go"

\* strings.Trim(s, cutset): s without its leading and trailing characters
\* that are in cutset.
RECURSIVE TrimLeft(_, _), TrimRight(_, _)
TrimLeft(s, cutset) ==
    IF Len(s) > 0 /\ Head(s) \in cutset THEN TrimLeft(Tail(s), cutset) ELSE s

TrimRight(s, cutset) ==
    IF Len(s) > 0 /\ s[Len(s)] \in cutset
    THEN TrimRight(SubSeq(s, 1, Len(s) - 1), cutset) ELSE s

Trim(s, cutset) == TrimRight(TrimLeft(s, cutset), cutset)

hasFlatBuffersImport(file) ==
    \E i \in 1..Len(file.Imports) :
        Trim(file.Imports[i].Path.Value, {"\""}) = <<FlatBuffersPath>>

usesFlatBuffersTable(file) ==
    LET visited == Inspect(file, "usesFlatBuffersTable")
    IN  \E i \in 1..Len(visited) : IsTableField(visited[i])

\* Mutant: the import check is dropped.
isFlatBufferFileNoImport(file) == usesFlatBuffersTable(file)

isFlatBufferFile(file) ==
    IF ~hasFlatBuffersImport(file) THEN FALSE ELSE usesFlatBuffersTable(file)

-----------------------------------------------------------------------------
(* Patching *)

\* Mutant: the guard never finds a method.
hasNameMethodNever(file) == FALSE

hasNameMethod(file) ==
    LET visited == Inspect(file, "hasNameMethod")
    IN  \E i \in 1..Len(visited) : IsNameFunc(visited[i])

\* fmt.Sprintf("\"%s\"", s)
Quoted(s) == "\"" \o s \o "\""

\* The method patchAST builds for a type: func (*T) Name() string { return "T" }
NameMethod(typeName) ==
    FuncDecl(FieldList(<<Field(<<>>, StarExpr(Ident(typeName)))>>),
             "Name",
             FuncType(FieldList(<<>>), FieldList(<<Field(<<>>, Ident("string"))>>)),
             BlockStmt(<<ReturnStmt(<<Ident(Quoted(typeName))>>)>>))

\* The loop over genDecl.Specs: one method per type spec whose type is a struct.
RECURSIVE SpecMethods(_)
SpecMethods(specs) ==
    IF Len(specs) = 0 THEN <<>>
    ELSE (IF Head(specs).k = "TypeSpec" /\ Head(specs).Type.k = "StructType"
          THEN <<NameMethod(Head(specs).Name.Name)>> ELSE <<>>)
         \o SpecMethods(Tail(specs))

\* The methods the patchAST callback appends, over the nodes it is called with.
RECURSIVE NewMethods(_)
NewMethods(visited) ==
    IF Len(visited) = 0 THEN <<>>
    ELSE (IF Head(visited).k = "GenDecl" /\ Head(visited).Tok = "type"
          THEN SpecMethods(Head(visited).Specs) ELSE <<>>)
         \o NewMethods(Tail(visited))

\* patchAST: the tree it leaves (it always returns a nil error).  The walk
\* ranges over the declarations the file had when it started, so an appended
\* method is not visited.
patchAST(file) ==
    IF hasNameMethod(file) THEN file
    ELSE [file EXCEPT !.Decls = file.Decls \o NewMethods(Inspect(file, "patchAST"))]

-----------------------------------------------------------------------------
(* The declarations files are drawn from *)

DQ(path) == <<"\"", path, "\"">>
\* A raw string literal; its delimiter (a back quote) is written "BACKQUOTE".
BQ(path) == <<"BACKQUOTE", path, "BACKQUOTE">>
TableType == SelectorExpr(Ident("flatbuffers"), "Table")
Import(name, lit) == GenDecl("import", <<ImportSpec(name, lit)>>)
TypeDecl(name, type) == GenDecl("type", <<TypeSpec(name, type)>>)

DeclLib == <<
    \* import flatbuffers "github.com/google/flatbuffers/go"
    Import(Ident("flatbuffers"), DQ(FlatBuffersPath)),
    \* type Item struct { _tab flatbuffers.Table }
    TypeDecl("Item", StructType(<<Field(<<Ident("_tab")>>, TableType)>>)),
    \* type ( ID int32; Vec struct { _tab flatbuffers.Struct } )
    GenDecl("type", <<TypeSpec("ID", Ident("int32")),
                      TypeSpec("Vec", StructType(<<Field(<<Ident("_tab")>>,
                          SelectorExpr(Ident("flatbuffers"), "Struct"))>>))>>),
    \* func (rcv *Vec) Table() flatbuffers.Table { return nil }
    FuncDecl(FieldList(<<Field(<<Ident("rcv")>>, StarExpr(Ident("Vec")))>>), "Table",
             FuncType(FieldList(<<>>), FieldList(<<Field(<<>>, TableType)>>)),
             BlockStmt(<<ReturnStmt(<<Ident("nil")>>)>>)),
    \* func (rcv *Item) Name() string { return "x" }
    FuncDecl(FieldList(<<Field(<<Ident("rcv")>>, StarExpr(Ident("Item")))>>), "Name",
             FuncType(FieldList(<<>>), FieldList(<<Field(<<>>, Ident("string"))>>)),
             BlockStmt(<<ReturnStmt(<<BasicLit(<<"\"", "x", "\"">>)>>)>>)),
    \* func Name() {}
    FuncDecl(Nil, "Name", FuncType(FieldList(<<>>), Nil), BlockStmt(<<>>)),
    \* func build() { type row struct { t flatbuffers.Table } }
    FuncDecl(Nil, "build", FuncType(FieldList(<<>>), Nil),
             BlockStmt(<<DeclStmt(TypeDecl("row",
                 StructType(<<Field(<<Ident("t")>>, TableType)>>)))>>)),
    \* type Namer interface { Name() string }
    TypeDecl("Namer", InterfaceType(<<Field(<<Ident("Name")>>,
        FuncType(FieldList(<<>>), FieldList(<<Field(<<>>, Ident("string"))>>)))>>)),
    \* import with the path as a raw string literal: github.com/google/flatbuffers/go
    Import(Nil, BQ(FlatBuffersPath)),
    \* import flatbuffers "github.com/google/flatbuffers"
    Import(Ident("flatbuffers"), DQ("github.com/google/flatbuffers")),
    \* var Name = Item{}
    GenDecl("var", <<ValueSpec(<<Ident("Name")>>, Nil,
                               <<CompositeLit(Ident("Item"), <<>>)>>)>>),
    \* type Ref struct { t *flatbuffers.Table }
    TypeDecl("Ref", StructType(<<Field(<<Ident("t")>>, StarExpr(TableType))>>))
>>

DeclsAt(idx) == [i \in 1..Len(idx) |-> DeclLib[idx[i]]]

-----------------------------------------------------------------------------
(* SpecTree: one parsed file, detected and patched *)

TreeOff ==
    /\ tree = Nil /\ orig = Nil /\ tpc = "off" /\ detected = FALSE /\ hist = <<>>

InitTree ==
    /\ \E n \in 0..MaxDecls : \E idx \in [1..n -> 1..Len(DeclLib)] :
          /\ tree = File(DeclsAt(idx))
          /\ orig = File(DeclsAt(idx))
    /\ tpc = "parsed"
    /\ detected = FALSE
    /\ hist = <<>>
    /\ fs = <<>> /\ fs0 = <<>> /\ flatbuffers = <<>> /\ todo = {}
    /\ phase = "off" /\ run = 0 /\ last = Nil /\ snap = Nil

Detect ==
    /\ tpc = "parsed"
    /\ detected' = isFlatBufferFile(tree)
    /\ tpc' = "detected"
    /\ UNCHANGED <<tree, orig, hist>>
    /\ UNCHANGED dirVars

Patch ==
    /\ tpc \in {"detected", "patched"}
    /\ Len(hist) < MaxPatch
    /\ tree' = patchAST(tree)
    /\ hist' = Append(hist, tree')
    /\ tpc' = "patched"
    /\ UNCHANGED <<orig, detected>>
    /\ UNCHANGED dirVars

NextTree == Detect \/ Patch

SpecTree == InitTree /\ [][NextTree]_vars

-----------------------------------------------------------------------------
(* Files: paths, texts, the parser and the printer *)

\* A path is the sequence of its pieces: directory, separator, stem, extension.
OutputDir == "go/flatdata"
SrcPath(stem) == <<OutputDir, "/", stem, ".go">>

Extension == ".go"
FlatDataHelperFileName == <<"flatdatas_helper", ".go">>

\* filepath.Join(dir, name)
Join(dir, name) == <<dir, "/">> \o name

\* filepath.Base(path): what follows the last separator.
RECURSIVE Base(_)
Base(path) ==
    IF \E i \in 1..Len(path) : path[i] = "/" THEN Base(Tail(path)) ELSE path

\* strings.TrimSuffix(s, suffix)
TrimSuffix(s, suffix) ==
    IF Len(s) > 0 /\ s[Len(s)] = suffix THEN SubSeq(s, 1, Len(s) - 1) ELSE s

\* The string made of the pieces.
RECURSIVE Concat(_)
Concat(pieces) == IF Len(pieces) = 0 THEN "" ELSE Head(pieces) \o Concat(Tail(pieces))

\* The text of a file: whether it parses, its declarations as written, and
\* its layout ("raw" as generated, "fmt" as go/printer lays it out; "absent":
\* no file).  A declaration as written is one of
\*   [src |-> "lib", id |-> i]          the text of DeclLib[i]
\*   [src |-> "accessor", type |-> T]   func (*T) Name() string { return "T" }
\*   [src |-> "import reflect"], [src |-> "fbs", keys |-> names],
\*   [src |-> "GetFlatDataByName"]      the three declarations of the registry
Text(ok, decls, layout) == [ok |-> ok, decls |-> decls, layout |-> layout]
Absent == Text(FALSE, <<>>, "absent")

LibDecl(i) == [src |-> "lib", id |-> i]
Accessor(t) == [src |-> "accessor", type |-> t]

\* The accessor as the parser reads it: the result is a string literal.
ParsedAccessor(t) ==
    FuncDecl(FieldList(<<Field(<<>>, StarExpr(Ident(t)))>>),
             "Name",
             FuncType(FieldList(<<>>), FieldList(<<Field(<<>>, Ident("string"))>>)),
             BlockStmt(<<ReturnStmt(<<BasicLit(<<"\"", t, "\"">>)>>)>>))

\*   "{{ . }}": reflect.TypeOf((*{{ . }})(nil)).Elem(),
RegistryEntry(name) ==
    KeyValueExpr(BasicLit(<<"\"", name, "\"">>),
                 CallExpr(SelectorExpr(Ident("reflect"), "TypeOf"),
                          <<StarExpr(Ident(name))>>))

ParseDecl(w) ==
    CASE w.src = "lib" -> DeclLib[w.id]
      [] w.src = "accessor" -> ParsedAccessor(w.type)
      [] w.src = "import reflect" ->
             GenDecl("import", <<ImportSpec(Nil, <<"\"", "reflect", "\"">>)>>)
      [] w.src = "fbs" ->
             GenDecl("var", <<ValueSpec(<<Ident("fbs")>>, Nil,
                 <<CompositeLit(Ident("map[string]reflect.Type"),
                                [i \in 1..Len(w.keys) |-> RegistryEntry(w.keys[i])])>>)>>)
      [] w.src = "GetFlatDataByName" ->
             FuncDecl(Nil, "GetFlatDataByName",
                      FuncType(FieldList(<<Field(<<Ident("name")>>, Ident("string"))>>),
                               FieldList(<<Field(<<>>, Ident("any"))>>)),
                      BlockStmt(<<ReturnStmt(<<Ident("nil")>>)>>))

\* The tree parser.ParseFile returns for a text that parses.
ParseFile(text) == File([i \in 1..Len(text.decls) |-> ParseDecl(text.decls[i])])

\* A method of the shape patchAST builds or the parser reads back from it.
HasAccessorShape(d) ==
    /\ d.k = "FuncDecl" /\ d.Recv.k = "FieldList" /\ Len(d.Recv.List) = 1
    /\ d.Recv.List[1].Type.k = "StarExpr" /\ d.Recv.List[1].Type.X.k = "Ident"
    /\ \/ d = NameMethod(d.Recv.List[1].Type.X.Name)
       \/ d = ParsedAccessor(d.Recv.List[1].Type.X.Name)

\* What the printer writes for a declaration: the identifier "T" (spelled
\* with its quotes) that a synthesized method returns is written like the
\* string literal "T".
PrintDecl(d) ==
    IF HasAccessorShape(d) THEN Accessor(d.Recv.List[1].Type.X.Name)
    ELSE LibDecl(CHOOSE i \in 1..Len(DeclLib) : DeclLib[i] = d)

\* printer.Fprint(f, fset, tree): the text written.
Fprint(file) ==
    Text(TRUE, [i \in 1..Len(file.Decls) |-> PrintDecl(file.Decls[i])], "fmt")

\* What os.Create followed by a write that fails leaves: the file created
\* anew, empty when the first write fails.  An empty file does not parse.
Truncated == Text(FALSE, <<>>, "raw")

-----------------------------------------------------------------------------
(* GoProcessor *)

NoError == <<"nil">>
ErrFlatBuffersNotImported == <<"ErrFlatBuffersNotImported">>

NewGoProcessor == <<>>

\* Mutant: the name is recorded before the file is checked.
ProcessFileAppendFirst(list, filePath, text, io) ==
    LET names == Append(list, Concat(TrimSuffix(Base(filePath), Extension)))
        tr == ParseFile(text)
    IN  IF ~text.ok
        THEN [err |-> <<"failed to parse file", filePath>>,
              flatbuffers |-> names, text |-> text]
        ELSE IF ~isFlatBufferFile(tr)
        THEN [err |-> ErrFlatBuffersNotImported, flatbuffers |-> names, text |-> text]
        ELSE [err |-> NoError, flatbuffers |-> names, text |-> Fprint(patchAST(tr))]

\* ProcessFile(filePath) on a processor whose list is list, the file holding
\* text.  io is what the file system does: "ok", "create" (os.Create fails) or
\* "print" (the write fails after os.Create emptied the file).  Returns the
\* error, the list and the file's text afterwards.
ProcessFile(list, filePath, text, io) ==
    IF ~text.ok
    THEN [err |-> <<"failed to parse file", filePath>>,
          flatbuffers |-> list, text |-> text]
    ELSE LET tr == ParseFile(text)
         IN  IF ~isFlatBufferFile(tr)
             THEN [err |-> ErrFlatBuffersNotImported,
                   flatbuffers |-> list, text |-> text]
             ELSE LET names == Append(list,
                                  Concat(TrimSuffix(Base(filePath), Extension)))
                      patched == patchAST(tr)
                  IN  CASE io = "create" ->
                             [err |-> <<"failed to create file">>,
                              flatbuffers |-> names, text |-> text]
                        [] io = "print" ->
                             [err |-> <<"failed to print AST">>,
                              flatbuffers |-> names, text |-> Truncated]
                        [] OTHER ->
                             [err |-> NoError, flatbuffers |-> names,
                              text |-> Fprint(patched)]

\* The bytes of the names used here (Go compares strings byte by byte).
Bytes(s) ==
    CASE s = "Item" -> <<73, 116, 101, 109>>
      [] s = "Vec" -> <<86, 101, 99>>
      [] s = "item_gen" -> <<105, 116, 101, 109, 95, 103, 101, 110>>
      [] s = "flatdatas_helper" ->
             <<102, 108, 97, 116, 100, 97, 116, 97, 115, 95, 104, 101, 108, 112, 101, 114>>

\* a < b on the byte sequences
RECURSIVE BytesLess(_, _)
BytesLess(a, b) ==
    IF Len(b) = 0 THEN FALSE
    ELSE IF Len(a) = 0 THEN TRUE
    ELSE IF Head(a) # Head(b) THEN Head(a) < Head(b)
    ELSE BytesLess(Tail(a), Tail(b))

StringLess(a, b) == BytesLess(Bytes(a), Bytes(b))

RECURSIVE InsertSorted(_, _)
InsertSorted(x, s) ==
    IF Len(s) = 0 THEN <<x>>
    ELSE IF StringLess(x, Head(s)) THEN <<x>> \o s
    ELSE <<Head(s)>> \o InsertSorted(x, Tail(s))

\* Mutant: the list is left in the order of the walk.
SortStringsNone(s) == s

\* sort.Strings(s): s in ascending order.
RECURSIVE SortStrings(_)
SortStrings(s) ==
    IF Len(s) = 0 THEN <<>> ELSE InsertSorted(Head(s), SortStrings(Tail(s)))

\* The template flatbufferCode executed on names: the text of the registry.
flatbufferCode(names) ==
    Text(TRUE, <<[src |-> "import reflect"], [src |-> "fbs", keys |-> names],
                 [src |-> "GetFlatDataByName"]>>, "raw")

\* PostProcess(outputDir) on a processor whose list is list, the registry
\* file holding text.  io: "ok", "create" (os.Create fails) or "execute" (the
\* template's write fails after os.Create emptied the file).  The template is
\* a constant that parses, so template.Parse does not fail.
PostProcess(list, text, io) ==
    IF io = "create"
    THEN [err |-> <<"failed to create file">>, flatbuffers |-> list, text |-> text]
    ELSE LET sorted == SortStrings(list)
         IN  IF io = "execute"
             THEN [err |-> <<"failed to execute template">>, flatbuffers |-> sorted,
                   text |-> Truncated]
             ELSE [err |-> NoError, flatbuffers |-> sorted,
                   text |-> flatbufferCode(sorted)]

-----------------------------------------------------------------------------
(* Spec: runs of the tool over a directory *)

\* The source files a directory may hold, by name without extension, and the
\* registry file.
Stems == {"Item", "Vec", "item_gen"}
HelperStem == FlatDataHelperFileName[1]
FileNames == Stems \cup {HelperStem}

PathOf(name) ==
    IF name = HelperStem THEN Join(OutputDir, FlatDataHelperFileName)
    ELSE SrcPath(name)

\* The texts source files start with.
TextLib == <<
    \* a generated table: import, type Item struct { _tab flatbuffers.Table }
    Text(TRUE, <<LibDecl(1), LibDecl(2)>>, "raw"),
    \* a generated struct: import, type Vec, func (rcv *Vec) Table()
    Text(TRUE, <<LibDecl(1), LibDecl(3), LibDecl(4)>>, "raw"),
    \* not generated: type Ref struct { t *flatbuffers.Table }
    Text(TRUE, <<LibDecl(12)>>, "raw"),
    \* a generated table that already declares func Name()
    Text(TRUE, <<LibDecl(1), LibDecl(2), LibDecl(6)>>, "raw"),
    \* a file that does not parse
    Text(FALSE, <<>>, "raw"),
    \* import, func build() with a local type row struct { t flatbuffers.Table }
    Text(TRUE, <<LibDecl(1), LibDecl(7)>>, "raw")
>>

Present(dir) == {f \in FileNames : dir[f].layout # "absent"}

NoCall == [op |-> "none", file |-> "", err |-> NoError, fsBefore |-> <<>>,
           listBefore |-> <<>>]

Init ==
    /\ \E present \in SUBSET Stems :
          /\ Cardinality(present) <= MaxFiles
          /\ \E content \in [present -> 1..Len(TextLib)] :
                fs = [f \in FileNames |->
                        IF f \in present THEN TextLib[content[f]] ELSE Absent]
    /\ fs0 = fs
    /\ flatbuffers = NewGoProcessor
    /\ todo = Present(fs)
    /\ phase = "walk"
    /\ run = 1
    /\ last = NoCall
    /\ snap = [ok |-> FALSE, fs |-> <<>>]
    /\ TreeOff

\* The walk hands the next file to ProcessFile; the sentinel is skipped, any
\* other error ends the run.
WalkFile ==
    /\ phase = "walk"
    /\ \E f \in todo : \E io \in {"ok", "create", "print"} :
          LET r == ProcessFile(flatbuffers, PathOf(f), fs[f], io)
          IN  /\ io = "create" => r.err = <<"failed to create file">>
              /\ io = "print" => r.err = <<"failed to print AST">>
              /\ fs' = [fs EXCEPT ![f] = r.text]
              /\ flatbuffers' = r.flatbuffers
              /\ todo' = todo \ {f}
              /\ phase' = IF r.err \in {NoError, ErrFlatBuffersNotImported}
                          THEN "walk" ELSE "failed"
              /\ last' = [op |-> "ProcessFile", file |-> f, err |-> r.err,
                          fsBefore |-> fs, listBefore |-> flatbuffers]
    /\ UNCHANGED <<fs0, run, snap>>
    /\ UNCHANGED treeVars

\* After the walk the registry is emitted.
Emit ==
    /\ phase = "walk" /\ todo = {}
    /\ \E io \in {"ok", "create", "execute"} :
          LET r == PostProcess(flatbuffers, fs[HelperStem], io)
          IN  /\ fs' = [fs EXCEPT ![HelperStem] = r.text]
              /\ flatbuffers' = r.flatbuffers
              /\ phase' = IF r.err = NoError THEN "done" ELSE "failed"
              /\ last' = [op |-> "PostProcess", file |-> HelperStem, err |-> r.err,
                          fsBefore |-> fs, listBefore |-> flatbuffers]
    /\ UNCHANGED <<fs0, todo, run, snap>>
    /\ UNCHANGED treeVars

\* The tool is run a second time, by a new process, over the directory as
\* the first run left it.
Rerun ==
    /\ phase \in {"done", "failed"}
    /\ run = 1
    /\ run' = run + 1
    /\ flatbuffers' = NewGoProcessor
    /\ todo' = Present(fs)
    /\ phase' = "walk"
    /\ snap' = [ok |-> phase = "done", fs |-> fs]
    /\ last' = NoCall
    /\ UNCHANGED <<fs, fs0>>
    /\ UNCHANGED treeVars

Next == WalkFile \/ Emit \/ Rerun

Spec == Init /\ [][Next]_vars

-----------------------------------------------------------------------------
(* Properties of the detector and the patcher (SpecTree) *)

\* The string an import literal denotes: the text between its delimiters.
ImportPathOf(spec) == spec.Path.Value[2]

ImportsRuntimePath(file) ==
    \E i \in 1..Len(file.Decls) :
        /\ file.Decls[i].k = "GenDecl" /\ file.Decls[i].Tok = "import"
        /\ \E j \in 1..Len(file.Decls[i].Specs) :
               ImportPathOf(file.Decls[i].Specs[j]) = FlatBuffersPath

ImportsRuntimePathDoubleQuoted(file) ==
    \E i \in 1..Len(file.Decls) :
        /\ file.Decls[i].k = "GenDecl" /\ file.Decls[i].Tok = "import"
        /\ \E j \in 1..Len(file.Decls[i].Specs) :
               file.Decls[i].Specs[j].Path.Value = <<"\"", FlatBuffersPath, "\"">>

IsTableRef(e) ==
    e = [k |-> "SelectorExpr", X |-> [k |-> "Ident", Name |-> "flatbuffers"],
         Sel |-> [k |-> "Ident", Name |-> "Table"]]

\* Some field of a struct type has the type flatbuffers.Table, below node n.
RECURSIVE HasTableStructField(_)
HasTableStructField(n) ==
    \/ /\ n.k = "StructType"
       /\ \E i \in 1..Len(n.Fields.List) : IsTableRef(n.Fields.List[i].Type)
    \/ \E i \in 1..Len(Children(n)) :
          Children(n)[i].k # "nil" /\ HasTableStructField(Children(n)[i])

\* Some field-list entry (a struct field, an interface method, a parameter,
\* a result or a receiver) has the type flatbuffers.Table, below node n.
RECURSIVE HasTableFieldEntry(_)
HasTableFieldEntry(n) ==
    \/ n.k = "Field" /\ IsTableRef(n.Type)
    \/ \E i \in 1..Len(Children(n)) :
          Children(n)[i].k # "nil" /\ HasTableFieldEntry(Children(n)[i])

IsTopLevelNameFunc(d) == d.k = "FuncDecl" /\ d.Name = [k |-> "Ident", Name |-> "Name"]

DeclaresNameFunc(file) ==
    \E i \in 1..Len(file.Decls) : IsTopLevelNameFunc(file.Decls[i])

\* C2: on a record file, every patchAST call after the first leaves the
\* declarations as the first call left them.
C2_PatchIdempotent ==
    detected => \A j \in 1..Len(hist) : hist[j] = hist[1]

\* A record file got a method from the first call and was patched again.
C2_Witness ==
    /\ detected /\ Len(hist) >= 2
    /\ Len(hist[1].Decls) > Len(orig.Decls)

\* The names of the top-level struct types, in declaration order.
RECURSIVE StructNames(_)
StructNames(specs) ==
    IF Len(specs) = 0 THEN <<>>
    ELSE (IF Head(specs).k = "TypeSpec" /\ Head(specs).Type.k = "StructType"
          THEN <<Head(specs).Name.Name>> ELSE <<>>) \o StructNames(Tail(specs))

RECURSIVE TopLevelStructNames(_)
TopLevelStructNames(decls) ==
    IF Len(decls) = 0 THEN <<>>
    ELSE (IF Head(decls).k = "GenDecl" /\ Head(decls).Tok = "type"
          THEN StructNames(Head(decls).Specs) ELSE <<>>)
         \o TopLevelStructNames(Tail(decls))

\* func (*T) Name() string { return "T" }, written out.
AccessorOf(t) ==
    [k |-> "FuncDecl",
     Recv |-> [k |-> "FieldList", List |->
                 <<[k |-> "Field", Names |-> <<>>,
                    Type |-> [k |-> "StarExpr", X |-> [k |-> "Ident", Name |-> t]]]>>],
     Name |-> [k |-> "Ident", Name |-> "Name"],
     Type |-> [k |-> "FuncType",
               Params |-> [k |-> "FieldList", List |-> <<>>],
               Results |-> [k |-> "FieldList", List |->
                              <<[k |-> "Field", Names |-> <<>>,
                                 Type |-> [k |-> "Ident", Name |-> "string"]]>>]],
     Body |-> [k |-> "BlockStmt", List |->
                 <<[k |-> "ReturnStmt", Results |->
                      <<[k |-> "Ident", Name |-> "\"" \o t \o "\""]>>]>>]]

\* C3 as stated: on a tree with no function named Name, patchAST appends one
\* accessor for every top-level struct type, in order, and nothing else; the
\* declarations it found are kept.
C3_AsStated ==
    Len(hist) >= 1 /\ ~DeclaresNameFunc(orig) =>
        LET names == TopLevelStructNames(orig.Decls)
        IN  hist[1].Decls = orig.Decls \o [i \in 1..Len(names) |-> AccessorOf(names[i])]

\* C10: a top-level function declaration named Name, with or without a
\* receiver, makes patchAST leave the tree as it is; hasNameMethod is true
\* exactly for the files with such a declaration.
C10_FileLevelGuard ==
    /\ tpc # "off" => (hasNameMethod(orig) <=> DeclaresNameFunc(orig))
    /\ DeclaresNameFunc(orig) => \A j \in 1..Len(hist) : hist[j] = orig

\* A file with a receiver-less func Name and a struct type without accessor
\* has been through patchAST.
C10_Witness ==
    /\ Len(hist) >= 1
    /\ \E i \in 1..Len(orig.Decls) :
          IsTopLevelNameFunc(orig.Decls[i]) /\ orig.Decls[i].Recv = Nil
    /\ Len(TopLevelStructNames(orig.Decls)) > 0

-----------------------------------------------------------------------------
(* Properties of the runs (Spec) *)

\* The keys of the registry's map literal, in the order written.
RegistryKeys(text) ==
    LET lit == ParseFile(text).Decls[2].Specs[1].Values[1]
    IN  [i \in 1..Len(lit.Elts) |-> lit.Elts[i].Key.Value[2]]

\* The file is one the detector accepts (by the characterisation of C1).
IsRecordText(text) ==
    /\ text.ok
    /\ ImportsRuntimePathDoubleQuoted(ParseFile(text))
    /\ HasTableFieldEntry(ParseFile(text))

RecordFiles(dir) == {f \in Stems : IsRecordText(dir[f])}

SeqToSet(q) == {q[i] : i \in 1..Len(q)}

\* C4: whatever the order of the walk, the registry of a completed run lists
\* exactly the names of the directory's record files, in ascending order.
C4_RegistryDeterministic ==
    phase = "done" =>
        LET keys == RegistryKeys(fs[HelperStem])
        IN  /\ \A i \in 1..(Len(keys) - 1) : StringLess(keys[i], keys[i + 1])
            /\ SeqToSet(keys) = RecordFiles(fs)
            /\ Len(keys) = Cardinality(RecordFiles(fs))

\* A run completed whose walk met the names in another order than ascending.
C4_Witness ==
    /\ phase = "done" /\ last.op = "PostProcess"
    /\ Len(last.listBefore) >= 2
    /\ last.listBefore # flatbuffers

\* C5 as stated: every accumulated name is non-empty and is the name of a
\* struct type declared in a file of the directory.
C5_AsStated ==
    \A i \in 1..Len(flatbuffers) :
        /\ flatbuffers[i] # ""
        /\ \E f \in Stems :
              /\ fs0[f].ok
              /\ flatbuffers[i] \in SeqToSet(TopLevelStructNames(ParseFile(fs0[f]).Decls))

\* C6: a ProcessFile call on a file that does not parse returns the parse
\* error naming the path, and one on a file the detector rejects returns
\* ErrFlatBuffersNotImported; both leave every file and the name list as they
\* were.  A call on a record file appends one name.  The registry of a
\* completed run has no key for a file that is not a record file.
C6_SkipChangesNothing ==
    /\ last.op = "ProcessFile" =>
          LET before == last.fsBefore[last.file]
          IN  /\ ~before.ok =>
                    /\ last.err = <<"failed to parse file", PathOf(last.file)>>
                    /\ fs = last.fsBefore /\ flatbuffers = last.listBefore
              /\ before.ok /\ ~IsRecordText(before) =>
                    /\ last.err = ErrFlatBuffersNotImported
                    /\ fs = last.fsBefore /\ flatbuffers = last.listBefore
              /\ IsRecordText(before) =>
                    /\ Len(flatbuffers) = Len(last.listBefore) + 1
                    /\ SubSeq(flatbuffers, 1, Len(last.listBefore)) = last.listBefore
    /\ phase = "done" =>
          \A f \in Stems \ RecordFiles(fs) :
              f \notin SeqToSet(RegistryKeys(fs[HelperStem]))

\* A file was skipped after a record file had been recorded.
C6_Witness ==
    /\ last.op = "ProcessFile" /\ last.err = ErrFlatBuffersNotImported
    /\ Len(flatbuffers) >= 1

\* C7: when the first run completed and the second run completes, every file
\* of the directory, the registry included, is as the first run left it.
C7_SecondRunChangesNothing ==
    run = 2 /\ phase = "done" /\ snap.ok => fs = snap.fs

\* Two runs completed; the first one added a method to a file and wrote a
\* registry with a key.
C7_Witness ==
    /\ run = 2 /\ phase = "done" /\ snap.ok
    /\ \E f \in Stems : Len(snap.fs[f].decls) > Len(fs0[f].decls)
    /\ Len(RegistryKeys(fs[HelperStem])) >= 1

\* C8 as stated (first part): at any point, also after a run that aborted,
\* every source file holds its original text or its fully patched text.
C8_AsStated ==
    \A f \in Stems :
        \/ fs[f] = fs0[f]
        \/ /\ IsRecordText(fs0[f])
           /\ fs[f] = Fprint(patchAST(ParseFile(fs0[f])))

\* C9 as stated: after a PostProcess call that returned an error the registry
\* file is what it was before the call or the complete rendering; after one
\* that returned nil it is the complete rendering.
C9_AsStated ==
    last.op = "PostProcess" =>
        LET complete == flatbufferCode(SortStrings(last.listBefore))
        IN  IF last.err = NoError
            THEN fs[HelperStem] = complete
            ELSE fs[HelperStem] \in {last.fsBefore[HelperStem], complete}

=============================================================================
